---- MODULE Spec2Model ----
(***************************************************************************)
(* A model of knoxhound/crypto_price_fetcher.                              *)
(*                                                                         *)
(*   crypto_price_macd.py  CoinGeckoAPI (throttle + urllib3 Retry session), *)
(*                         the MACD polling loop and its CSV log            *)
(*   price_change.py       CryptoPriceTracker (percentage changes, CSV)     *)
(*   price_fetcher.py      the plain polling loop                           *)
(*                                                                         *)
(* Time is counted in ticks of half a second (TicksPerSecond), the          *)
(* resolution min_request_interval = 1.5 s asks for.                        *)
(*                                                                         *)
(* The variable prog selects the program under study: "client" is a caller  *)
(* issuing CoinGeckoAPI.make_request calls, step by step with the clock;    *)
(* "macd", "tracker" and "fetcher" are the three polling loops, in which a  *)
(* price request is one step whose result is drawn from what the request    *)
(* can give its caller (a body, or None after an error).                    *)
(***************************************************************************)
EXTENDS Integers, Sequences, FiniteSets, TLC

VARIABLES
    prog,               \* which program runs
    \* ---- CoinGeckoAPI and its caller (crypto_price_macd.py:19-69)
    now,                \* time.time(), in ticks
    last_request_time,  \* CoinGeckoAPI.last_request_time, in ticks
    current_time,       \* _wait_for_rate_limit's local: the clock read at line 41
    pc,                 \* position of the make_request call
    endpoint,           \* the endpoint argument of the call in progress
    total,              \* urllib3 Retry.total left for the session.get in progress
    depth,              \* recursion depth of make_request (line 63)
    calls,              \* make_request calls of the caller so far
    idle,               \* ticks the caller has waited since the last call ended
    result,             \* what the last call gave its caller
    netCalls,           \* requests put on the wire by the call in progress
    only429,            \* every answer to the call in progress was a 429
    only5xx,            \* every answer to the call in progress was a 500, 502, 503 or 504
    resp,               \* <<>> or <<r>>: the last answer, with the sleep that followed
    sends,              \* the last two send times and endpoints on the wire
    \* ---- the polling loops and their files
    lpc,                \* position of the loop ("off": no process)
    runs,               \* runs of the program started so far
    cycles,             \* cycles started so far, over all runs
    starts,             \* cycles started in the current run
    sleeps,             \* post-cycle sleeps taken in the current run
    price_data,         \* <<>> for None, <<d>> for the dict d the price fetch returned
    idx,                \* main: index of the asset whose history is fetched next
    historical_data,    \* main: crypto -> the series kept at line 186
    hist_failed,        \* main: the assets whose history fetch gave nothing this cycle
    previous_prices,    \* CryptoPriceTracker.previous_prices
    csv_macd,           \* crypto_data.csv: <<>> when absent, <<lines>> otherwise
    csv_changes,        \* crypto_changes.csv: <<>> when absent, <<lines>> otherwise
    \* ---- calculate_macd on its own
    macd_in,            \* the prices argument
    macd_out            \* <<>> before the call, <<r>> for the tuple r it returned

clientVars == <<now, last_request_time, current_time, pc, endpoint, total, depth, calls, idle,
                result, netCalls, only429, only5xx, resp, sends>>

loopVars == <<lpc, runs, cycles, starts, sleeps, price_data, idx, historical_data,
              hist_failed, previous_prices, csv_macd, csv_changes>>

macdVars == <<macd_in, macd_out>>

vars == <<prog, clientVars, loopVars, macdVars>>

\* ------------------------------------------------------------------ bounds
MaxCalls == 2           \* make_request calls of the caller
MaxIdle == 2            \* ticks the caller may wait between two calls
MaxLatency == 1         \* ticks between a send and its answer
MaxRetryAfter == 1      \* largest Retry-After header value, in seconds
StartClock == 10        \* the clock when the program starts, in ticks
MaxRuns == 2            \* runs of a polling program
MaxCycles == 2          \* polling cycles of main, over all runs
MaxPolls == 3           \* polling cycles of CryptoPriceTracker, over all runs
MaxPrice == 2
MaxPoint == 5
MaxAttempts == 5           \* largest price of a quote

\* --------------------------------------------------------------- constants
TicksPerSecond == 2
min_request_interval == 3       \* 1.5 s, crypto_price_macd.py:24
RetryTotal == 3                 \* Retry(total=3), crypto_price_macd.py:30
backoff_factor == 2             \* Retry(backoff_factor=2), crypto_price_macd.py:31
DefaultRetryAfter == 60         \* headers.get('Retry-After', 60), line 60

status_forcelist == {429, 500, 502, 503, 504}

\* urllib3's Retry.RETRY_AFTER_STATUS_CODES: with respect_retry_after_header
\* left at its default (True) by Retry(...) at lines 29-33, an answer of one of
\* these statuses carrying a Retry-After header is retried as well.
RETRY_AFTER_STATUS_CODES == {413, 429, 503}

Endpoints == {"simple/price", "market_chart"}

\* The statuses a server answer is drawn from.
Statuses == {200, 404, 413, 429, 500, 503}

\* A Retry-After header: <<>> when absent, <<d>> for "Retry-After: d".
Headers == {<<>>} \cup {<<d>> : d \in 1..MaxRetryAfter}

\* What one attempt can meet: an HTTP answer, or a connection failure.
Outcomes ==
    [kind : {"http"}, status : Statuses, header : Headers]
        \cup {[kind |-> "conn", status |-> 0, header |-> <<>>]}

RECURSIVE Pow(_, _)
Pow(b, e) == IF e <= 0 THEN 1 ELSE b * Pow(b, e - 1)

\* ------------------------------------------------- the session's Retry policy
\* Retry.is_retry for a GET: a status of status_forcelist is retried; so is, while
\* total is not 0, a status of RETRY_AFTER_STATUS_CODES that carries Retry-After.
is_retry(status, has_retry_after, t) ==
    \/ status \in status_forcelist
    \/ (t # 0 /\ has_retry_after /\ status \in RETRY_AFTER_STATUS_CODES)

\* is_exhausted giving up one retry early.
is_exhausted_early(t) == t <= 0

is_exhausted_never(t) == FALSE

\* Retry.is_exhausted, on the policy Retry.increment returns (total - 1).
is_exhausted(t) == t < 0

\* Retry.get_backoff_time after n consecutive failures, in seconds:
\* 0 for the first retry, then backoff_factor * 2^(n-1).
get_backoff_time(n) == IF n <= 1 THEN 0 ELSE backoff_factor * Pow(2, n - 1)

\* Retry.sleep: the Retry-After value when the answer carries one, the backoff
\* otherwise (and always after a connection failure). In ticks.
RetrySleep(header, n) ==
    TicksPerSecond * (IF header # <<>> THEN header[1] ELSE get_backoff_time(n))

\* One step of urlopen under the policy with t retries left: reissue after a
\* sleep, raise MaxRetryError (requests: RetryError or ConnectionError), or hand
\* the answer to requests.
UrlopenStep(o, t) ==
    LET n == RetryTotal - (t - 1)       \* failures in Retry.history after increment
    IN  IF o.kind = "conn"
        THEN IF is_exhausted(t - 1)
             THEN [kind |-> "raise", sleep |-> 0]
             ELSE [kind |-> "retry", sleep |-> RetrySleep(<<>>, n)]
        ELSE IF is_retry(o.status, o.header # <<>>, t)
        THEN IF is_exhausted(t - 1)
             THEN [kind |-> "raise", sleep |-> 0]
             ELSE [kind |-> "retry", sleep |-> RetrySleep(o.header, n)]
        ELSE [kind |-> "response", sleep |-> 0]

\* ------------------------------------------------------------ CoinGeckoAPI
\* _wait_for_rate_limit, lines 41-46: the sleep it takes at clock value t.
ThrottleSleep(t, lrt) ==
    IF t - lrt < min_request_interval THEN min_request_interval - (t - lrt) ELSE 0

RecordedTime_stale(at_line_41, after_sleep) == at_line_41

\* _wait_for_rate_limit, line 47: the time recorded, given the clock read at
\* line 41 and the clock after the sleep.
RecordedTime(at_line_41, after_sleep) == after_sleep

\* int(response.headers.get('Retry-After', 60)), line 60, in seconds.
retry_after(header) == IF header # <<>> THEN header[1] ELSE DefaultRetryAfter

Last2(s) == IF Len(s) > 2 THEN SubSeq(s, Len(s) - 1, Len(s)) ELSE s

\* The caller (fetch_crypto_prices, fetch_historical_prices) calls make_request.
Call ==
    /\ prog = "client"
    /\ pc = "idle"
    /\ calls < MaxCalls
    /\ \E ep \in Endpoints : endpoint' = ep
    /\ calls' = calls + 1
    /\ pc' = "throttle"
    /\ depth' = 0
    /\ idle' = 0
    /\ result' = "none"
    /\ netCalls' = 0
    /\ only429' = TRUE
    /\ only5xx' = TRUE
    /\ resp' = <<>>
    /\ UNCHANGED <<prog, now, last_request_time, current_time, total, sends>>
    /\ UNCHANGED <<loopVars, macdVars>>

\* The caller does something else for a tick between two calls.
CallerIdle ==
    /\ prog = "client"
    /\ pc = "idle"
    /\ calls < MaxCalls
    /\ idle < MaxIdle
    /\ idle' = idle + 1
    /\ now' = now + 1
    /\ UNCHANGED <<prog, last_request_time, current_time, pc, endpoint, total,
                   depth, calls, result, netCalls, only429, only5xx, resp, sends>>
    /\ UNCHANGED <<loopVars, macdVars>>

\* make_request line 51: _wait_for_rate_limit; then session.get starts with the
\* adapter's Retry policy.
WaitForRateLimit ==
    /\ pc = "throttle"
    /\ LET after == now + ThrottleSleep(now, last_request_time)
       IN  /\ current_time' = now
           /\ now' = after
           /\ last_request_time' = RecordedTime(now, after)
    /\ total' = RetryTotal
    /\ pc' = "send"
    /\ UNCHANGED <<prog, endpoint, depth, calls, idle, result, netCalls,
                   only429, only5xx, resp, sends>>
    /\ UNCHANGED <<loopVars, macdVars>>

\* urllib3 puts the request on the wire; _wait_for_rate_limit's local is gone.
Send ==
    /\ pc = "send"
    /\ netCalls < MaxAttempts
    /\ current_time' = 0
    /\ netCalls' = netCalls + 1
    /\ sends' = Last2(Append(sends, [at |-> now, ep |-> endpoint]))
    /\ pc' = "inflight"
    /\ UNCHANGED <<prog, now, last_request_time, endpoint, total, depth, calls,
                   idle, result, only429, only5xx, resp>>
    /\ UNCHANGED <<loopVars, macdVars>>

\* The answer arrives; urllib3 retries or gives up, and make_request lines 56-69
\* handle what session.get returned or raised.
Respond ==
    /\ pc = "inflight"
    /\ \E o \in Outcomes, lat \in 0..MaxLatency :
        LET t == now + lat
            u == UrlopenStep(o, total)
        IN  /\ only429' = (only429 /\ o.status = 429)
            /\ only5xx' = (only5xx /\ o.status \in {500, 502, 503, 504})
            /\ resp' = <<[status |-> o.status, header |-> o.header, at |-> t]>>
            /\ CASE u.kind = "retry" ->
                    /\ total' = total - 1
                    /\ now' = t + u.sleep
                    /\ pc' = "send"
                    /\ UNCHANGED <<result, depth>>
                 [] u.kind = "raise" ->
                    \* RetryError / ConnectionError: lines 67-69
                    /\ now' = t
                    /\ pc' = "idle"
                    /\ result' = "error"
                    /\ UNCHANGED <<total, depth>>
                 [] u.kind = "response" /\ o.status < 400 ->
                    \* lines 56-57
                    /\ now' = t
                    /\ pc' = "idle"
                    /\ result' = "body"
                    /\ UNCHANGED <<total, depth>>
                 [] u.kind = "response" /\ o.status = 429 ->
                    \* lines 59-63
                    /\ now' = t + TicksPerSecond * retry_after(o.header)
                    /\ pc' = "throttle"
                    /\ depth' = depth + 1
                    /\ UNCHANGED <<total, result>>
                 [] OTHER ->
                    \* lines 64-66
                    /\ now' = t
                    /\ pc' = "idle"
                    /\ result' = "error"
                    /\ UNCHANGED <<total, depth>>
    /\ UNCHANGED <<prog, last_request_time, current_time, endpoint, calls, idle,
                   netCalls, sends>>
    /\ UNCHANGED <<loopVars, macdVars>>

\* =================================================== the polling programs
\* The tracked assets: the first two of the six ids of main (lines 162-169) and
\* of the six default coins of CryptoPriceTracker (line 8).
crypto_ids == <<"bitcoin", "ethereum">>
coins == <<"bitcoin", "ethereum">>

Range(s) == {s[k] : k \in DOMAIN s}

\* One entry of a /simple/price body: <<p>> is a complete entry with usd = p,
\* <<>> an entry that lacks a field the program reads. The loops of main only
\* display the price; CryptoPriceTracker computes with it.
InfoQuotes == {<<>>, <<1>>}
UsdQuotes == {<<p>> : p \in 0..MaxPrice}

\* The bodies a price request for ids can return: any of the ids may be missing.
PriceBodies(ids, quotes) == UNION {[S -> quotes] : S \in SUBSET Range(ids)}

\* What fetch_crypto_prices / fetch_prices give: None (<<>>) after an error, or
\* <<body>>.
PriceResults(ids, quotes) == {<<>>} \cup {<<b>> : b \in PriceBodies(ids, quotes)}

Truthy_always(pd) == TRUE

\* Python's truth value of a fetch result: None and {} are false.
Truthy(pd) == pd # <<>> /\ DOMAIN pd[1] # {}

\* The series /market_chart can give, and what fetch_historical_prices returns:
\* None (<<>>) after any exception, or <<list>>.
HistSeries == {<<>>, <<1>>, <<1, 2>>}
HistResults == {<<>>} \cup {<<h>> : h \in HistSeries}

EmptyMap == [c \in {} |-> <<>>]

Put(f, c, v) == [x \in DOMAIN f \cup {c} |-> IF x = c THEN v ELSE f[x]]

\* ------------------------------------------------------------ calculate_macd
\* Series.ewm(span=s, adjust=False).mean() at index i (0-based), as the numerator
\* over (s+1)^i: ema[0] = x[0], ema[i] = (2*x[i] + (s-1)*ema[i-1]) / (s+1).
RECURSIVE EmaNum_halved(_, _, _)
EmaNum_halved(x, s, i) ==
    IF i = 0 THEN x[1]
    ELSE x[i + 1] * Pow(s + 1, i - 1) + s * EmaNum_halved(x, s, i - 1)

RECURSIVE EmaNum(_, _, _)
EmaNum(x, s, i) ==
    IF i = 0 THEN x[1]
    ELSE 2 * x[i + 1] * Pow(s + 1, i - 1) + (s - 1) * EmaNum(x, s, i - 1)

\* macd_line[i] = fast_ema[i] - slow_ema[i], numerator over ((fast+1)*(slow+1))^i.
MacdNum(x, fast, slow, i) ==
    EmaNum(x, fast, i) * Pow(slow + 1, i) - EmaNum(x, slow, i) * Pow(fast + 1, i)

\* signal_line[i] = ewm(span=signal) of macd_line, numerator over
\* ((fast+1)*(slow+1)*(signal+1))^i.
RECURSIVE SignalNum(_, _, _, _, _)
SignalNum(x, fast, slow, signal, i) ==
    IF i = 0 THEN MacdNum(x, fast, slow, 0)
    ELSE 2 * MacdNum(x, fast, slow, i) * Pow(signal + 1, i - 1)
         + (signal - 1) * (fast + 1) * (slow + 1)
             * SignalNum(x, fast, slow, signal, i - 1)

HistogramNum_swapped(x, fast, slow, signal, i) ==
    SignalNum(x, fast, slow, signal, i)
        - MacdNum(x, fast, slow, i) * Pow(signal + 1, i)

\* histogram[i] = macd_line[i] - signal_line[i] (line 112), numerator over
\* ((fast+1)*(slow+1)*(signal+1))^i.
HistogramNum(x, fast, slow, signal, i) ==
    MacdNum(x, fast, slow, i) * Pow(signal + 1, i)
        - SignalNum(x, fast, slow, signal, i)

\* calculate_macd(prices): the last element of the three series, as numerators
\* over den = ((fast+1)*(slow+1)*(signal+1))^(len-1), with fast=12, slow=26,
\* signal=9.
calculate_macd(prices) ==
    LET i == Len(prices) - 1
        m == MacdNum(prices, 12, 26, i) * Pow(9 + 1, i)
        g == SignalNum(prices, 12, 26, 9, i)
        h == HistogramNum(prices, 12, 26, 9, i)
    IN  [macd |-> m, signal |-> g, histogram |-> h,
         den |-> Pow((12 + 1) * (26 + 1) * (9 + 1), i)]

\* The price series calculate_macd is applied to on its own: 1 to 3 points (the
\* numerators of a 4-point series pass the 32-bit integer range).
SeriesLengths == {1, 2, 3}
PriceSeries == UNION {[1..n -> 1..MaxPoint] : n \in SeriesLengths}

\* One call of calculate_macd(prices).
CalculateMacd ==
    /\ prog = "calc"
    /\ macd_out = <<>>
    /\ macd_out' = <<calculate_macd(macd_in)>>
    /\ UNCHANGED <<prog, macd_in, clientVars, loopVars>>

\* --------------------------------------------------- crypto_price_macd.py
\* format_price_data raises (KeyError) on an entry that lacks a field it reads.
FormatRaises(data) == \E c \in DOMAIN data : data[c] = <<>>

\* Lines 124-127: the indicators of one asset, <<>> for "N/A".
Indicators(crypto, hist) ==
    IF crypto \in DOMAIN hist /\ hist[crypto] # <<>>
    THEN <<calculate_macd(hist[crypto])>>
    ELSE <<>>

\* The loop of lines 123-141 over data.items(), taken in the order of ids.
RECURSIVE TableRows(_, _, _, _)
TableRows(ids, data, hist, k) ==
    IF k > Len(ids) THEN <<>>
    ELSE (IF ids[k] \in DOMAIN data
          THEN <<[crypto |-> ids[k], ind |-> Indicators(ids[k], hist)]>>
          ELSE <<>>) \o TableRows(ids, data, hist, k + 1)

\* format_price_data reading historical_data[crypto] without the test of line 124.
format_price_data_unguarded(data, hist) ==
    IF FormatRaises(data) \/ \E c \in DOMAIN data : c \notin DOMAIN hist
    THEN <<>>
    ELSE <<TableRows(crypto_ids, data, hist, 1)>>

\* format_price_data: <<>> when it raises, <<table_data>> otherwise.
format_price_data(data, hist) ==
    IF FormatRaises(data) THEN <<>> ELSE <<TableRows(crypto_ids, data, hist, 1)>>

MacdHeader == [kind |-> "header", file |-> "crypto_data.csv"]

CsvRows(rows, stamp) ==
    [k \in DOMAIN rows |->
        [kind |-> "row", stamp |-> stamp, crypto |-> rows[k].crypto,
         ind |-> rows[k].ind]]

\* save_to_csv with mode 'w' and the header at every call.
save_to_csv_truncating(file, rows, stamp) ==
    <<<<MacdHeader>> \o CsvRows(rows, stamp)>>

\* save_to_csv writing the header at every call.
save_to_csv_reheading(file, rows, stamp) ==
    <<(IF file # <<>> THEN file[1] ELSE <<>>) \o <<MacdHeader>> \o CsvRows(rows, stamp)>>

\* save_to_csv, lines 146-158: the file after the call.
save_to_csv(file, rows, stamp) ==
    LET exists == file # <<>>
        mode == IF exists THEN "a" ELSE "w"
        write_headers == ~exists
    IN  <<(IF mode = "a" THEN file[1] ELSE <<>>)
          \o (IF write_headers THEN <<MacdHeader>> ELSE <<>>)
          \o CsvRows(rows, stamp)>>

\* A process is started: main() up to the loop, line 171.
MainStart ==
    /\ prog = "macd"
    /\ lpc = "off"
    /\ runs < MaxRuns
    /\ runs' = runs + 1
    /\ lpc' = "fetch"
    /\ starts' = 0
    /\ sleeps' = 0
    /\ price_data' = <<>>
    /\ idx' = 1
    /\ historical_data' = EmptyMap
    /\ hist_failed' = {}
    /\ UNCHANGED <<prog, cycles, previous_prices, csv_macd, csv_changes>>
    /\ UNCHANGED <<clientVars, macdVars>>

\* Lines 178-182: fetch_crypto_prices, and the test of its result.
MainFetchPrices ==
    /\ prog = "macd"
    /\ lpc = "fetch"
    /\ cycles < MaxCycles
    /\ cycles' = cycles + 1
    /\ starts' = starts + 1
    /\ \E r \in PriceResults(crypto_ids, InfoQuotes) :
        /\ price_data' = r
        /\ lpc' = IF Truthy(r) THEN "hist" ELSE "sleep"
    /\ idx' = 1
    /\ historical_data' = EmptyMap
    /\ hist_failed' = {}
    /\ UNCHANGED <<prog, runs, sleeps, previous_prices, csv_macd, csv_changes>>
    /\ UNCHANGED <<clientVars, macdVars>>

\* Lines 183-186: one turn of the loop over crypto_ids.
MainFetchHistorical ==
    /\ prog = "macd"
    /\ lpc = "hist"
    /\ \E r \in HistResults :
        LET crypto == crypto_ids[idx]
            kept == r # <<>> /\ r[1] # <<>>
        IN  /\ historical_data' =
                  IF kept THEN Put(historical_data, crypto, r[1]) ELSE historical_data
            /\ hist_failed' = IF kept THEN hist_failed ELSE hist_failed \cup {crypto}
    /\ idx' = idx + 1
    /\ lpc' = IF idx = Len(crypto_ids) THEN "format" ELSE "hist"
    /\ UNCHANGED <<prog, runs, cycles, starts, sleeps, price_data, previous_prices,
                   csv_macd, csv_changes>>
    /\ UNCHANGED <<clientVars, macdVars>>

\* Lines 189-199: format, save, print; an exception goes to line 204.
MainFormatSave ==
    /\ prog = "macd"
    /\ lpc = "format"
    /\ LET t == format_price_data(price_data[1], historical_data)
       IN  IF t = <<>>
           THEN /\ lpc' = "except"
                /\ UNCHANGED csv_macd
           ELSE /\ lpc' = "sleep"
                /\ csv_macd' = save_to_csv(csv_macd, t[1], <<runs, cycles>>)
    /\ UNCHANGED <<prog, runs, cycles, starts, sleeps, price_data, idx,
                   historical_data, hist_failed, previous_prices, csv_changes>>
    /\ UNCHANGED <<clientVars, macdVars>>

\* time.sleep(60), line 202 or line 207.
MainSleep ==
    /\ prog = "macd"
    /\ lpc \in {"sleep", "except"}
    /\ sleeps' = sleeps + 1
    /\ lpc' = "fetch"
    /\ UNCHANGED <<prog, runs, cycles, starts, price_data, idx, historical_data,
                   hist_failed, previous_prices, csv_macd, csv_changes>>
    /\ UNCHANGED <<clientVars, macdVars>>

\* ------------------------------------------------------- price_change.py
ChangesHeader == [kind |-> "header", file |-> "crypto_changes.csv"]

\* create_initial_csv, lines 20-31: DataFrame.to_csv in its default mode 'w'.
create_initial_csv(file) == <<<<ChangesHeader>>>>

\* current_prices[coin]['usd'] raises KeyError when the coin or the field is missing.
HasUsd(current, coin) == coin \in DOMAIN current /\ current[coin] # <<>>

\* Line 55, ((curr - prev) / prev) * 100, as the fraction num/den.
pct_change(curr, prev) == [num |-> 100 * (curr - prev), den |-> prev]

\* calculate_changes, lines 50-60, from coin number k on: raised tells whether an
\* exception (KeyError, ZeroDivisionError) left the loop, prev is previous_prices
\* as the loop left it.
RECURSIVE CalcFrom(_, _, _, _)
CalcFrom(current, prev, changes, k) ==
    IF k > Len(coins) THEN [raised |-> FALSE, prev |-> prev, changes |-> changes]
    ELSE LET coin == coins[k]
             fail == [raised |-> TRUE, prev |-> prev, changes |-> changes]
         IN  IF coin \in DOMAIN prev
             THEN IF ~HasUsd(current, coin) \/ prev[coin] = 0
                  THEN fail
                  ELSE CalcFrom(current,
                                Put(prev, coin, current[coin][1]),
                                Put(changes, coin, pct_change(current[coin][1], prev[coin])),
                                k + 1)
             ELSE IF ~HasUsd(current, coin)
                  THEN [raised |-> TRUE, prev |-> prev,
                        changes |-> Put(changes, coin, [num |-> 0, den |-> 1])]
                  ELSE CalcFrom(current,
                                Put(prev, coin, current[coin][1]),
                                Put(changes, coin, [num |-> 0, den |-> 1]),
                                k + 1)

calculate_changes_stale(current, prev) ==
    LET r == CalcFrom(current, prev, EmptyMap, 1)
    IN  [raised |-> r.raised,
         prev |-> IF prev = EmptyMap THEN r.prev ELSE prev,
         changes |-> r.changes]

calculate_changes(current, prev) == CalcFrom(current, prev, EmptyMap, 1)

\* log_data, lines 62-92: one row appended (mode 'a', header=False).
log_data(file, current, changes, stamp) ==
    <<(IF file # <<>> THEN file[1] ELSE <<>>)
      \o <<[kind |-> "row", stamp |-> stamp,
            prices |-> [c \in Range(coins) |-> current[c][1]],
            changes |-> changes]>>>>

\* A process is started: CryptoPriceTracker(...) at line 111, then run().
TrackerStart ==
    /\ prog = "tracker"
    /\ lpc = "off"
    /\ runs < MaxRuns
    /\ runs' = runs + 1
    /\ previous_prices' = EmptyMap
    /\ csv_changes' = create_initial_csv(csv_changes)
    /\ lpc' = "fetch"
    /\ starts' = 0
    /\ sleeps' = 0
    /\ price_data' = <<>>
    /\ UNCHANGED <<prog, cycles, idx, historical_data, hist_failed, csv_macd>>
    /\ UNCHANGED <<clientVars, macdVars>>

\* run, lines 97-98: fetch_prices and the test of its result.
TrackerFetch ==
    /\ prog = "tracker"
    /\ lpc = "fetch"
    /\ cycles < MaxPolls
    /\ cycles' = cycles + 1
    /\ starts' = starts + 1
    /\ \E r \in PriceResults(coins, UsdQuotes) :
        /\ price_data' = r
        /\ lpc' = IF Truthy(r) THEN "compute" ELSE "sleep"
    /\ UNCHANGED <<prog, runs, sleeps, idx, historical_data, hist_failed,
                   previous_prices, csv_macd, csv_changes>>
    /\ UNCHANGED <<clientVars, macdVars>>

\* run, lines 99-105: calculate_changes and log_data; run has no handler, so an
\* exception of calculate_changes ends the process.
TrackerLog ==
    /\ prog = "tracker"
    /\ lpc = "compute"
    /\ LET r == calculate_changes(price_data[1], previous_prices)
       IN  /\ previous_prices' = r.prev
           /\ IF r.raised
              THEN /\ lpc' = "terminated"
                   /\ UNCHANGED csv_changes
              ELSE /\ lpc' = "sleep"
                   /\ csv_changes' =
                        log_data(csv_changes, price_data[1], r.changes, <<runs, cycles>>)
    /\ UNCHANGED <<prog, runs, cycles, starts, sleeps, price_data, idx,
                   historical_data, hist_failed, csv_macd>>
    /\ UNCHANGED <<clientVars, macdVars>>

\* time.sleep(interval), line 107.
TrackerSleep ==
    /\ prog = "tracker"
    /\ lpc = "sleep"
    /\ sleeps' = sleeps + 1
    /\ lpc' = "fetch"
    /\ UNCHANGED <<prog, runs, cycles, starts, price_data, idx, historical_data,
                   hist_failed, previous_prices, csv_macd, csv_changes>>
    /\ UNCHANGED <<clientVars, macdVars>>

\* ------------------------------------------------------ price_fetcher.py
\* A process is started: main() up to the loop, line 70.
FetcherStart ==
    /\ prog = "fetcher"
    /\ lpc = "off"
    /\ runs < MaxRuns
    /\ runs' = runs + 1
    /\ lpc' = "fetch"
    /\ starts' = 0
    /\ sleeps' = 0
    /\ price_data' = <<>>
    /\ UNCHANGED <<prog, cycles, idx, historical_data, hist_failed,
                   previous_prices, csv_macd, csv_changes>>
    /\ UNCHANGED <<clientVars, macdVars>>

\* Lines 75-77: fetch_crypto_prices and the test of its result; when the test
\* fails the while loop goes round at once (the sleep of line 89 is inside the if).
FetcherFetch ==
    /\ prog = "fetcher"
    /\ lpc = "fetch"
    /\ cycles < MaxCycles
    /\ cycles' = cycles + 1
    /\ starts' = starts + 1
    /\ \E r \in PriceResults(crypto_ids, InfoQuotes) :
        /\ price_data' = r
        /\ lpc' = IF Truthy(r) THEN "format" ELSE "fetch"
    /\ UNCHANGED <<prog, runs, sleeps, idx, historical_data, hist_failed,
                   previous_prices, csv_macd, csv_changes>>
    /\ UNCHANGED <<clientVars, macdVars>>

\* Lines 79-85: format_price_data (lines 33-57) and the printing; main has no
\* handler, so an exception of format_price_data ends the process.
FetcherFormat ==
    /\ prog = "fetcher"
    /\ lpc = "format"
    /\ lpc' = IF FormatRaises(price_data[1]) THEN "terminated" ELSE "sleep"
    /\ UNCHANGED <<prog, runs, cycles, starts, sleeps, price_data, idx,
                   historical_data, hist_failed, previous_prices, csv_macd, csv_changes>>
    /\ UNCHANGED <<clientVars, macdVars>>

\* time.sleep(60), line 89.
FetcherSleep ==
    /\ prog = "fetcher"
    /\ lpc = "sleep"
    /\ sleeps' = sleeps + 1
    /\ lpc' = "fetch"
    /\ UNCHANGED <<prog, runs, cycles, starts, price_data, idx, historical_data,
                   hist_failed, previous_prices, csv_macd, csv_changes>>
    /\ UNCHANGED <<clientVars, macdVars>>

\* The operator stops the process (Ctrl-C, kill): its memory is gone, the files stay.
Kill ==
    /\ lpc # "off"
    /\ lpc' = "off"
    /\ starts' = 0
    /\ sleeps' = 0
    /\ price_data' = <<>>
    /\ idx' = 1
    /\ historical_data' = EmptyMap
    /\ hist_failed' = {}
    /\ previous_prices' = EmptyMap
    /\ UNCHANGED <<prog, runs, cycles, csv_macd, csv_changes>>
    /\ UNCHANGED <<clientVars, macdVars>>

\* ============================================================ specifications
ClientInit ==
    /\ now = StartClock
    /\ last_request_time = 0
    /\ current_time = 0
    /\ pc = "idle"
    /\ endpoint = "simple/price"
    /\ total = RetryTotal
    /\ depth = 0
    /\ calls = 0
    /\ idle = 0
    /\ result = "none"
    /\ netCalls = 0
    /\ only429 = TRUE
    /\ only5xx = TRUE
    /\ resp = <<>>
    /\ sends = <<>>

LoopsInit ==
    /\ lpc = "off"
    /\ runs = 0
    /\ cycles = 0
    /\ starts = 0
    /\ sleeps = 0
    /\ price_data = <<>>
    /\ idx = 1
    /\ historical_data = EmptyMap
    /\ hist_failed = {}
    /\ previous_prices = EmptyMap
    /\ csv_macd = <<>>
    /\ csv_changes = <<>>

NoCalc ==
    /\ macd_in = <<>>
    /\ macd_out = <<>>

\* The client: a caller of CoinGeckoAPI.make_request.
Init ==
    /\ prog = "client"
    /\ ClientInit
    /\ LoopsInit
    /\ NoCalc

Next ==
    \/ Call
    \/ CallerIdle
    \/ WaitForRateLimit
    \/ Send
    \/ Respond

Spec == Init /\ [][Next]_vars

\* The client with a call in progress always moving on: the throttle sleep and
\* the retry sleeps end, the request goes out, and every request is answered or
\* fails.
SpecLive ==
    /\ Init
    /\ [][Next]_vars
    /\ WF_vars(WaitForRateLimit)
    /\ WF_vars(Send)
    /\ WF_vars(Respond)

\* The three polling programs, each with runs, cycles and its file.
InitLoops ==
    /\ prog \in {"macd", "tracker", "fetcher"}
    /\ ClientInit
    /\ LoopsInit
    /\ NoCalc

NextLoops ==
    \/ MainStart
    \/ MainFetchPrices
    \/ MainFetchHistorical
    \/ MainFormatSave
    \/ MainSleep
    \/ TrackerStart
    \/ TrackerFetch
    \/ TrackerLog
    \/ TrackerSleep
    \/ FetcherStart
    \/ FetcherFetch
    \/ FetcherFormat
    \/ FetcherSleep
    \/ Kill

SpecLoops == InitLoops /\ [][NextLoops]_vars

\* calculate_macd as a function of its argument.
InitMacd ==
    /\ prog = "calc"
    /\ ClientInit
    /\ LoopsInit
    /\ macd_in \in PriceSeries
    /\ macd_out = <<>>

NextMacd == CalculateMacd

SpecMacd == InitMacd /\ [][NextMacd]_vars

\* ==================================================================== claims
LastSend == sends[Len(sends)]

\* C1. Throttling: any two consecutive requests put on the wire are at least
\* min_request_interval apart, reissues and retries included.
C1_Throttled ==
    Len(sends) = 2 => sends[2].at - sends[1].at >= min_request_interval

\* C2. 429 handling: after a 429 carrying Retry-After: d (60 when the header is
\* absent) the same request is reissued, and not before d seconds have passed.
C2_WaitsRetryAfter ==
    (pc = "inflight" /\ resp # <<>> /\ resp[1].status = 429)
        => /\ LastSend.ep = endpoint
           /\ LastSend.at - resp[1].at >= TicksPerSecond * retry_after(resp[1].header)

AnsweredOnly5xx == only5xx /\ netCalls > 0 /\ pc # "inflight"

\* C3 as stated: against a server that always answers 500/502/503/504 the call
\* ends with an error after exactly RetryTotal (3) requests.
C3_ThreeAttempts ==
    (AnsweredOnly5xx /\ pc = "idle") => (result = "error" /\ netCalls = RetryTotal)

\* C3, amended: against a server that always answers 500/502/503/504 one call
\* puts exactly RetryTotal + 1 requests on the wire (the first attempt and the
\* RetryTotal retries), then raises, and sends nothing more.
C3_Exhaustion ==
    AnsweredOnly5xx
        => /\ netCalls <= RetryTotal + 1
           /\ (netCalls = RetryTotal + 1) = (pc = "idle")
           /\ pc = "idle" => result = "error"

C3_Witness ==
    AnsweredOnly5xx /\ pc = "idle" /\ result = "error" /\ netCalls = RetryTotal + 1

\* C4. A 429 is always retried: a call whose every answer was a 429 never ends
\* with an error.
C4_429NeverFails ==
    ~(pc = "idle" /\ result = "error" /\ netCalls > 0 /\ only429)

\* C5. No polling loop ever terminates on an error raised inside a cycle.
C5_LoopNeverTerminates == lpc # "terminated"

\* C6. Between the starts of two consecutive cycles of a run the loop takes its
\* post-cycle sleep: a run never has started more than one cycle beyond the
\* sleeps it took.
C6_SleepBetweenCycles == starts <= sleeps + 1

IsPrefix(a, b) == Len(a) <= Len(b) /\ SubSeq(b, 1, Len(a)) = a

\* The lines of file f are still there, in place, in file g.
FileKept(f, g) == f # <<>> => (g # <<>> /\ IsPrefix(f[1], g[1]))

RowsOfRun(file, r) ==
    {k \in DOMAIN file[1] : file[1][k].kind = "row" /\ file[1][k].stamp[1] = r}

HeaderOnce(file, header) ==
    file # <<>>
        => /\ Len(file[1]) >= 1
           /\ file[1][1] = header
           /\ \A k \in 2..Len(file[1]) : file[1][k].kind # "header"

PricesFetched == Truthy(price_data) /\ ~FormatRaises(price_data[1])

CycleRows(crypto) ==
    {k \in DOMAIN csv_macd[1] :
        /\ csv_macd[1][k].kind = "row"
        /\ csv_macd[1][k].stamp = <<runs, cycles>>
        /\ csv_macd[1][k].crypto = crypto}

C10_ClientErrorFinal ==
    (pc # "inflight" /\ resp # <<>> /\ resp[1].status \in {404, 413})
        => /\ pc = "idle"
           /\ result = "error"
           /\ idle = 0 => now = resp[1].at

\* C11. calculate_macd is only called on a series of at least 2 points: in a
\* saved cycle every row that carries computed indicators belongs to an asset
\* whose kept series has 2 points or more (an asset with 0 or 1 point shows N/A).
C11_MacdPrecondition ==
    (prog = "macd" /\ lpc = "sleep" /\ PricesFetched)
        => \A c \in DOMAIN price_data[1] : \A k \in CycleRows(c) :
              csv_macd[1][k].ind # <<>>
                  => (c \in DOMAIN historical_data /\ Len(historical_data[c]) >= 2)

\* Exact fractions n/d in lowest terms, d > 0.
RECURSIVE GCD(_, _)
GCD(a, b) == IF b = 0 THEN a ELSE GCD(b, a % b)

Abs(n) == IF n < 0 THEN 0 - n ELSE n

Frac(n, d) == LET g == GCD(Abs(n), d) IN [n |-> n \div g, d |-> d \div g]

FracAdd(p, q) ==
    LET l == (p.d \div GCD(p.d, q.d)) * q.d
    IN  Frac(p.n * (l \div p.d) + q.n * (l \div q.d), l)

FracSub(p, q) == FracAdd(p, [n |-> 0 - q.n, d |-> q.d])

FracMul(p, q) ==
    LET a == Frac(p.n, q.d)
        b == Frac(q.n, p.d)
    IN  [n |-> a.n * b.n, d |-> a.d * b.d]

\* The reference recursion over a series q of fractions (1-based):
\* ema[1] = q[1], ema[i] = a*q[i] + (1-a)*ema[i-1], a = 2/(s+1).
RECURSIVE RefEma(_, _, _)
RefEma(q, s, i) ==
    LET a == Frac(2, s + 1)
    IN  IF i = 1 THEN q[1]
        ELSE FracAdd(FracMul(a, q[i]),
                     FracMul(FracSub(Frac(1, 1), a), RefEma(q, s, i - 1)))

RefMacdLine(x) ==
    LET q == [i \in 1..Len(x) |-> Frac(x[i], 1)]
    IN  [i \in 1..Len(x) |-> FracSub(RefEma(q, 12, i), RefEma(q, 26, i))]

RefSignal(x) == RefEma(RefMacdLine(x), 9, Len(x))

\* C12. calculate_macd returns, in this order, the last element of
\* macd_line = EMA12 - EMA26, the last element of EMA9(macd_line), and their
\* difference, each EMA being the reference recursion with a = 2/(span+1).
C12_MatchesReference ==
    macd_out # <<>>
        => LET r == macd_out[1]
               m == RefMacdLine(macd_in)[Len(macd_in)]
               g == RefSignal(macd_in)
           IN  /\ DOMAIN r = {"macd", "signal", "histogram", "den"}
               /\ Frac(r.macd, r.den) = m
               /\ Frac(r.signal, r.den) = g
               /\ Frac(r.histogram, r.den) = FracSub(m, g)

C12_Witness ==
    /\ macd_out # <<>>
    /\ Len(macd_in) = 3
    /\ macd_in[1] # macd_in[2]
    /\ macd_in[2] # macd_in[3]
    /\ macd_out[1].macd # 0
    /\ macd_out[1].signal # macd_out[1].macd

\* C13. For every series of at least 2 points the returned histogram is the
\* returned MACD value minus the returned signal value.
C13_HistogramIsDifference ==
    (macd_out # <<>> /\ Len(macd_in) >= 2)
        => macd_out[1].histogram = macd_out[1].macd - macd_out[1].signal

C13_Witness ==
    /\ macd_out # <<>>
    /\ Len(macd_in) >= 2
    /\ macd_out[1].histogram # 0

\* C14. _wait_for_rate_limit leaves last_request_time equal to the clock read
\* after the throttle sleep (not the clock read at line 41 when the condition was
\* evaluated), and no other step of a request changes last_request_time.
C14_RecordsAfterSleep ==
    [][/\ pc = "throttle"
            => /\ current_time' = now
               /\ now' = now + ThrottleSleep(now, last_request_time)
               /\ last_request_time' = now'
       /\ pc # "throttle" => last_request_time' = last_request_time]_vars

C14_Witness ==
    /\ pc = "send"
    /\ netCalls = 0
    /\ current_time < now
    /\ last_request_time = now

\* The data rows of crypto_changes.csv, oldest first (the header is line 1, and
\* create_initial_csv leaves only the rows of the running process).
ChangeRows == IF csv_changes = <<>> THEN <<>> ELSE Tail(csv_changes[1])

TrackerAlive == prog = "tracker" /\ lpc \in {"fetch", "compute", "sleep"}

\* C15. While the tracker runs: the first logged poll reports change 0 for every
\* coin; each later one reports 100*(current - previous)/previous against the
\* prices of the poll logged just before it; previous_prices holds the prices of
\* the last logged poll, and right after a completed calculate_changes it holds
\* that call's current price of every tracked coin.
C15_Baseline ==
    TrackerAlive
        => /\ \A k \in 1..Len(ChangeRows) : \A c \in Range(coins) :
                ChangeRows[k].changes[c] =
                    IF k = 1 THEN [num |-> 0, den |-> 1]
                    ELSE pct_change(ChangeRows[k].prices[c],
                                    ChangeRows[k - 1].prices[c])
           /\ previous_prices =
                IF ChangeRows = <<>> THEN EmptyMap
                ELSE ChangeRows[Len(ChangeRows)].prices
           /\ (lpc = "sleep" /\ Truthy(price_data))
                => \A c \in Range(coins) : previous_prices[c] = price_data[1][c][1]

C15_Witness ==
    /\ TrackerAlive
    /\ lpc = "sleep"
    /\ Truthy(price_data)
    /\ Len(ChangeRows) = 3
    /\ ChangeRows[1].prices["bitcoin"] # ChangeRows[2].prices["bitcoin"]
    /\ ChangeRows[3].changes["bitcoin"].num # 0
    /\ ChangeRows[3].prices["bitcoin"] # ChangeRows[1].prices["bitcoin"]

\* C16. A failed fetch changes nothing: a cycle of the tracker or of the MACD
\* main loop whose price fetch gave None goes straight to its sleep and on to the
\* next fetch, with previous_prices and both files as they were; it never
\* reaches the history requests or a row write.
C16_FailedFetchChangesNothing ==
    [][/\ (prog \in {"tracker", "macd"} /\ lpc = "fetch" /\ lpc' # "off"
              /\ price_data' = <<>>)
            => /\ lpc' = "sleep"
               /\ previous_prices' = previous_prices
               /\ csv_changes' = csv_changes
               /\ csv_macd' = csv_macd
       /\ (prog \in {"tracker", "macd"} /\ lpc = "sleep" /\ lpc' # "off"
              /\ price_data = <<>>)
            => /\ lpc' = "fetch"
               /\ previous_prices' = previous_prices
               /\ csv_changes' = csv_changes
               /\ csv_macd' = csv_macd]_vars

C16_Witness ==
    /\ prog = "tracker"
    /\ lpc = "sleep"
    /\ price_data = <<>>
    /\ starts >= 2
    /\ previous_prices # EmptyMap
    /\ Len(ChangeRows) = 1

\* C17. make_request terminates: every call in progress eventually returns to
\* its caller (with a body or an error), whatever finite number of its attempts
\* were answered 429.
C17_CallTerminates == (pc # "idle") ~> (pc = "idle")

C17_Witness ==
    /\ pc = "idle"
    /\ calls = MaxCalls
    /\ only429
    /\ netCalls = RetryTotal + 1

====
